---- MODULE Spec2Model ----
(***************************************************************************)
(* State-machine model of the URL shortener of main.go: the rate limiter   *)
(* (RateLimiter.allow over a Redis counter with expiry), the middleware,   *)
(* the two handlers shortenUrl and redirectHandler, the mutex-protected    *)
(* urlStore map, encrypt/decrypt (AES-CTR, hex) and generateShortId.       *)
(*                                                                         *)
(* Strings that the code inspects byte by byte (URLs, payloads) are        *)
(* sequences of byte codes (URLs) or of one-character strings (hex text,   *)
(* short ids).                                                             *)
(***************************************************************************)
EXTENDS Naturals, Sequences, FiniteSets, TLC

(***************************************************************************)
(* Bounds of the model.                                                    *)
(***************************************************************************)
\* number of request workers (goroutines serving a request at a time)
NWorkers == 2
\* number of distinct client addresses (rate-limiter keys)
NKeys == 2
\* the window rl.window, counted in ticks of the model clock
Window == 2
\* no call to allow is modelled once a counter has reached Limit + MaxOver
MaxOver == 1

(***************************************************************************)
(* Program constants.                                                      *)
(***************************************************************************)
\* main.go:42  NewRateLimiter(client, 10, 1*time.Minute)
Limit == 10
\* crypto/aes BlockSize, used at main.go:103,105,188,189
BlockSize == 16
\* main.go:121  b := make([]rune, 6)
IdLen == 6

Workers == 1 .. NWorkers
Keys == 1 .. NKeys
MaxCount == Limit + MaxOver

\* main.go:23  secretKey = []byte("12345678901234567890123456789012")
secretKey ==
  << 49, 50, 51, 52, 53, 54, 55, 56, 57, 48, 49, 50, 51, 52, 53, 54,
     55, 56, 57, 48, 49, 50, 51, 52, 53, 54, 55, 56, 57, 48, 49, 50 >>

\* main.go:25  lettersRune
lettersRune ==
  << "a", "b", "c", "d", "e", "f", "g", "h", "i", "j", "k", "l", "m",
     "n", "o", "p", "q", "r", "s", "t", "u", "v", "w", "x", "y", "z",
     "A", "B", "C", "D", "E", "F", "G", "H", "I", "J", "K", "L", "M",
     "N", "O", "P", "Q", "R", "S", "T", "U", "V", "W", "X", "Y", "Z",
     "0", "1", "2", "3", "4", "5", "6", "7", "8", "9" >>

\* the table of encoding/hex
hextable ==
  << "0", "1", "2", "3", "4", "5", "6", "7",
     "8", "9", "a", "b", "c", "d", "e", "f" >>

(***************************************************************************)
(* Inputs.                                                                 *)
(***************************************************************************)
\* "http://"
HttpPrefix == << 104, 116, 116, 112, 58, 47, 47 >>
\* "https://"
HttpsPrefix == << 104, 116, 116, 112, 115, 58, 47, 47 >>
\* "http://a"
UrlHttp == HttpPrefix \o << 97 >>
\* "https://b"
UrlHttps == HttpsPrefix \o << 98 >>
\* "ftp://x"
UrlFtp == << 102, 116, 112, 58, 47, 47, 120 >>
\* "" : the url parameter is missing or empty
UrlNone == << >>

\* "https://example.com/a", longer than one block of the cipher
UrlLong ==
  HttpsPrefix \o << 101, 120, 97, 109, 112, 108, 101, 46, 99, 111, 109, 47, 97 >>

\* values of r.URL.Query().Get("url")
Urls == { UrlNone, UrlFtp, UrlHttp, UrlHttps }

\* values rand.Read can leave in the IV
IVs ==
  { [j \in 1 .. BlockSize |-> 0],
    [j \in 1 .. BlockSize |-> (17 * j) % 256] }

\* the one of them that the requests of Spec draw
StoreIVs == { [j \in 1 .. BlockSize |-> (17 * j) % 256] }

\* sequences of results of rand.Int(rand.Reader, 62) for one id
RandNums ==
  { << 0, 1, 25, 26, 51, 52 >>,
    << 61, 60, 52, 0, 26, 9 >> }

\* ids that a request path can carry: the ids that can be generated, and ""
\* (the path "/")
NoId == << >>

(***************************************************************************)
(* Pure functions.                                                         *)
(***************************************************************************)
\* strings.HasPrefix
HasPrefix(s, prefix) ==
  /\ Len(s) >= Len(prefix)
  /\ SubSeq(s, 1, Len(prefix)) = prefix

\* the test of main.go:142
validScheme(url) == HasPrefix(url, HttpsPrefix) \/ HasPrefix(url, HttpPrefix)

RECURSIVE XorBits(_, _)
\* bitwise exclusive or of two numbers
XorBits(a, b) ==
  IF a = 0 /\ b = 0
    THEN 0
    ELSE (((a % 2) + (b % 2)) % 2) + 2 * XorBits(a \div 2, b \div 2)

\* the exclusive or of two half bytes, as a table
xorTable == [a \in 0 .. 15 |-> [b \in 0 .. 15 |-> XorBits(a, b)]]

\* bitwise exclusive or of two bytes
Xor(a, b) ==
  (16 * xorTable[a \div 16][b \div 16]) + xorTable[a % 16][b % 16]

\* Byte j (from 1) of the key stream of cipher.NewCTR(aes.NewCipher(key), iv):
\* a fixed function of key, iv and position (AES itself is not modelled; the
\* block number enters as the counter added to the IV).
keyStream(key, iv, j) ==
  ( key[((j - 1) % Len(key)) + 1] + (5 * iv[((j - 1) % BlockSize) + 1])
    + (11 * ((j - 1) \div BlockSize)) + (29 * ((j - 1) % BlockSize)) + 7 ) % 256

\* stream.XORKeyStream(dst, src) for a stream made from secretKey and iv
XORKeyStream(iv, src) ==
  [j \in 1 .. Len(src) |-> Xor(src[j], keyStream(secretKey, iv, j))]

\* hex.EncodeToString (src is the argument, evaluated once)
EncodeToString(bytes) ==
  LET encoded(src) ==
        [n \in 1 .. 2 * Len(src) |->
           IF n % 2 = 1
             THEN hextable[(src[(n + 1) \div 2] \div 16) + 1]
             ELSE hextable[((src[n \div 2]) % 16) + 1]]
  IN CHOOSE r \in { encoded(src) : src \in { bytes } } : TRUE

\* the upper-case digits hex decoding also accepts
hextableUpper ==
  << "0", "1", "2", "3", "4", "5", "6", "7",
     "8", "9", "A", "B", "C", "D", "E", "F" >>

\* the value of every character that is a hexadecimal digit
hexValue ==
  [c \in { hextable[v] : v \in 1 .. 16 } \cup { hextableUpper[v] : v \in 1 .. 16 } |->
     IF \E v \in 1 .. 16 : hextable[v] = c
       THEN (CHOOSE v \in 1 .. 16 : hextable[v] = c) - 1
       ELSE (CHOOSE v \in 1 .. 16 : hextableUpper[v] = c) - 1]

\* fromHexChar of encoding/hex: the value of a digit, 16 for no digit
fromHexChar(c) ==
  IF c \in DOMAIN hexValue THEN hexValue[c] ELSE 16

\* hex.DecodeString: err for an odd length or a character that is no digit
DecodeString(text) ==
  IF Len(text) % 2 = 1 \/ \E n \in 1 .. Len(text) : fromHexChar(text[n]) = 16
    THEN [err |-> TRUE, bytes |-> << >>]
    ELSE [err |-> FALSE,
          bytes |-> [j \in 1 .. Len(text) \div 2 |->
                       (16 * fromHexChar(text[(2 * j) - 1])) + fromHexChar(text[2 * j])]]

\* encrypt that leaves the IV out of its result
encryptNoIV(orignalUrl, iv) ==
  EncodeToString(XORKeyStream(iv, orignalUrl))

\* encrypt whose IV is always zero
encryptFixedIV(orignalUrl, iv) ==
  EncodeToString([j \in 1 .. BlockSize |-> 0]
                   \o XORKeyStream([j \in 1 .. BlockSize |-> 0], orignalUrl))

\* encrypt (main.go:96-117) with the IV that rand.Read produced
encrypt(orignalUrl, iv) ==
  EncodeToString(iv \o XORKeyStream(iv, orignalUrl))

\* decrypt with the cipher text taken one byte too early
decryptOffByOne(encryptedUrl) ==
  LET decoded(d) ==
        IF d.err
          THEN [outcome |-> "fatal", result |-> << >>]
          ELSE IF Len(d.bytes) < BlockSize
                 THEN [outcome |-> "panic", result |-> << >>]
                 ELSE [outcome |-> "ok",
                       result |-> XORKeyStream(SubSeq(d.bytes, 1, BlockSize),
                                               SubSeq(d.bytes, BlockSize, Len(d.bytes)))]
  IN CHOOSE r \in { decoded(d) : d \in { DecodeString(encryptedUrl) } } : TRUE

\* decrypt (main.go:177-196). outcome "fatal": sugar.Fatal ends the process;
\* "panic": the slice cipherText[:aes.BlockSize] is out of range.
\* (d is the one result of hex.DecodeString, decoded once.)
decrypt(encryptedUrl) ==
  LET decoded(d) ==
        IF d.err
          THEN [outcome |-> "fatal", result |-> << >>]
          ELSE IF Len(d.bytes) < BlockSize
                 THEN [outcome |-> "panic", result |-> << >>]
                 ELSE [outcome |-> "ok",
                       result |-> XORKeyStream(SubSeq(d.bytes, 1, BlockSize),
                                               SubSeq(d.bytes, BlockSize + 1, Len(d.bytes)))]
  IN CHOOSE r \in { decoded(d) : d \in { DecodeString(encryptedUrl) } } : TRUE

\* generateShortId (main.go:120-132) with the numbers that rand.Int produced
generateShortId(nums) ==
  [i \in 1 .. IdLen |-> lettersRune[nums[i] + 1]]

\* the ids generateShortId can return in this model
GenIds == { generateShortId(nums) : nums \in RandNums }

\* values of r.URL.Path[1:] on the "/" route
PathIds == GenIds \cup { NoId }

(***************************************************************************)
(* State.                                                                  *)
(***************************************************************************)
VARIABLES
  urlStore,      \* main.go:22  the map id -> encrypted url
  mu,            \* main.go:24  0 when unlocked, else the worker holding it
  redisVal,      \* Redis: value of the counter of each key, 0 when absent
  redisTtl,      \* Redis: ticks before the key expires, 0 when absent
  crashed,       \* sugar.Fatal was called: the process has exited
  pc,            \* position of each worker in the request it serves
  req,           \* the request of each worker
  encryptedUrl,  \* local variable encryptedUrl of both handlers
  shortId,       \* local variable shortId of both handlers
  ok,            \* local variable ok of redirectHandler
  view,          \* the map as loaded by a map assignment in progress
  resp,          \* what each worker wrote to its http.ResponseWriter
  age,           \* history: ticks since the increment that created the counter
  calls,         \* history: executed calls of allow on the present counter
  admits,        \* history: how many of them returned true
  seen,          \* history: the values of incr.Val() they observed
  sinceAdmit,    \* history: ticks since the last call of allow for the key
                 \*   that returned true, Window when there is none that recent
  written,       \* history: the last payload stored under each id, its url,
                 \*   and whether an answer 200 has carried this id for this url
  issued,        \* history: whether an answer 200 has carried each id
  look           \* history: what the store held when the worker looked up

store == << urlStore, mu >>
redis == << redisVal, redisTtl >>
locals == << encryptedUrl, shortId, ok, view >>
limiterHist == << age, calls, admits, seen, sinceAdmit >>
storeHist == << written, issued, look >>
vars ==
  << urlStore, mu, redisVal, redisTtl, crashed, pc, req, encryptedUrl,
     shortId, ok, view, resp, age, calls, admits, seen, sinceAdmit, written,
     issued, look >>

NoReq ==
  [kind |-> "none", key |-> 0, url |-> UrlNone, id |-> NoId,
   execErr |-> FALSE, snap |-> [issued |-> FALSE, url |-> << >>]]

NoResp ==
  [status |-> 0, message |-> "", location |-> << >>, shortUrl |-> << >>]

NoWrite == [payload |-> << >>, url |-> << >>, answered |-> FALSE]

NoLook == [done |-> FALSE, hit |-> FALSE, payload |-> << >>, url |-> << >>]

\* http.Error(w, message, status)
Error(message, status) ==
  [status |-> status, message |-> message, location |-> << >>,
   shortUrl |-> << >>]

\* requests to /shorten and to /<id>
Requests ==
  { [kind |-> "shorten", url |-> u, id |-> NoId] : u \in Urls }
    \cup { [kind |-> "redirect", url |-> UrlNone, id |-> i] : i \in PathIds }

\* two of them that leave the store as it is: "ftp://x" to shorten, and the
\* lookup of ""
RejectedRequests ==
  { [kind |-> "shorten", url |-> UrlFtp, id |-> NoId],
    [kind |-> "redirect", url |-> UrlNone, id |-> NoId] }

Init ==
  /\ urlStore = << >>
  /\ mu = 0
  /\ redisVal = [k \in Keys |-> 0]
  /\ redisTtl = [k \in Keys |-> 0]
  /\ crashed = FALSE
  /\ pc = [w \in Workers |-> "idle"]
  /\ req = [w \in Workers |-> NoReq]
  /\ encryptedUrl = [w \in Workers |-> << >>]
  /\ shortId = [w \in Workers |-> NoId]
  /\ ok = [w \in Workers |-> FALSE]
  /\ view = [w \in Workers |-> << >>]
  /\ resp = [w \in Workers |-> NoResp]
  /\ age = [k \in Keys |-> 0]
  /\ calls = [k \in Keys |-> 0]
  /\ admits = [k \in Keys |-> 0]
  /\ seen = [k \in Keys |-> {}]
  /\ sinceAdmit = [k \in Keys |-> Window]
  /\ written = [i \in GenIds |-> NoWrite]
  /\ issued = [i \in GenIds |-> FALSE]
  /\ look = [w \in Workers |-> NoLook]

(***************************************************************************)
(* The rate limiter.                                                       *)
(***************************************************************************)
\* SET key 1 in the place of INCR
IncrAsSet(val) == 1

\* an increment that stops at limit
IncrUpToLimit(val) == IF val < Limit THEN val + 1 ELSE val

\* INCR: the value after the increment; an absent key counts as 0
Incr(val) == val + 1

\* EXPIRE key rl.window, run by every transaction (main.go:66)
Expire(ttl) == Window

\* allow that compares with < in the place of <=
allowStrict(err, incrVal) ==
  IF err THEN FALSE ELSE incrVal < Limit

\* allow that does not look at the error of Exec
allowFailOpen(err, incrVal) == incrVal <= Limit

\* the value allow returns (main.go:68-72) from Exec's error and incr.Val()
allow(err, incrVal) ==
  IF err THEN FALSE ELSE incrVal <= Limit

\* the handler the ServeMux of main.go:53-55 picks
route(r) == IF r.kind = "shorten" THEN "shorten" ELSE "redirect"

\* a middleware that passes every request on
admitAlways(allowed, r) == [pc |-> route(r), resp |-> NoResp]

\* what the middleware does with the result of allow (main.go:87-92): the
\* position of the worker and its answer so far
admit(allowed, r) ==
  IF allowed
    THEN [pc |-> route(r), resp |-> NoResp]
    ELSE [pc |-> "responded", resp |-> Error("too many request", 429)]

\* history: whether an answer 200 has carried id, and the url of that answer
\* when it belongs to the last write under id
answeredBefore(id) ==
  IF id \in GenIds
    THEN [issued |-> issued[id],
          url |-> IF written[id].answered THEN written[id].url ELSE << >>]
    ELSE [issued |-> FALSE, url |-> << >>]

\* rateLimiterMiddleware (main.go:84-94) with the call of allow (main.go:63-73):
\* worker w takes a request r (one of reqs) of client k (one of keys); Redis
\* runs the transaction INCR, EXPIRE atomically unless Exec fails (err), and
\* the request is answered 429 or passed to the router.
Middleware(w, keys, reqs) ==
  /\ ~crashed
  /\ pc[w] = "idle"
  /\ \E k \in keys, r \in reqs, err \in BOOLEAN :
       LET incrVal == IF err THEN 0 ELSE Incr(redisVal[k])
           allowed == allow(err, incrVal)
           next == admit(allowed, r)
       IN
       /\ err \/ redisVal[k] < MaxCount
       /\ IF err
            THEN UNCHANGED << redis, limiterHist >>
            ELSE /\ redisVal' = [redisVal EXCEPT ![k] = incrVal]
                 /\ redisTtl' = [redisTtl EXCEPT ![k] = Expire(@)]
                 /\ age' = age
                 /\ calls' = [calls EXCEPT ![k] = @ + 1]
                 /\ admits' = [admits EXCEPT ![k] = IF allowed THEN @ + 1 ELSE @]
                 /\ seen' = [seen EXCEPT ![k] = @ \cup { incrVal }]
                 /\ sinceAdmit' = [sinceAdmit EXCEPT ![k] =
                                     IF allowed THEN 0 ELSE @]
       /\ req' = [req EXCEPT ![w] =
                    [kind |-> r.kind, key |-> k, url |-> r.url, id |-> r.id,
                     execErr |-> err,
                     snap |-> answeredBefore(r.id)]]
       /\ pc' = [pc EXCEPT ![w] = next.pc]
       /\ resp' = [resp EXCEPT ![w] = next.resp]
  /\ UNCHANGED << store, crashed, locals, storeHist >>

\* One tick of the clock: Redis deletes the keys whose time to live ran out.
Tick ==
  /\ ~crashed
  /\ \E k \in Keys : redisTtl[k] > 0
  /\ redisTtl' = [k \in Keys |-> IF redisTtl[k] > 0 THEN redisTtl[k] - 1 ELSE 0]
  /\ redisVal' = [k \in Keys |-> IF redisTtl[k] > 1 THEN redisVal[k] ELSE 0]
  /\ age' = [k \in Keys |->
               IF redisTtl[k] > 1
                 THEN (IF age[k] < Window THEN age[k] + 1 ELSE age[k])
                 ELSE 0]
  /\ calls' = [k \in Keys |-> IF redisTtl[k] > 1 THEN calls[k] ELSE 0]
  /\ admits' = [k \in Keys |-> IF redisTtl[k] > 1 THEN admits[k] ELSE 0]
  /\ seen' = [k \in Keys |-> IF redisTtl[k] > 1 THEN seen[k] ELSE {}]
  /\ sinceAdmit' = [k \in Keys |->
                      IF sinceAdmit[k] < Window THEN sinceAdmit[k] + 1 ELSE Window]
  /\ UNCHANGED << store, crashed, pc, req, locals, resp, storeHist >>

(***************************************************************************)
(* The store: the map urlStore and its mutex mu.                           *)
(***************************************************************************)
\* a Lock that never returns
canLockNever(m) == FALSE

\* a Lock that never waits
canLockAlways(m) == TRUE

\* mu.Lock() returns only when no worker holds the mutex
canLock(m) == m = 0

\* a map assignment that drops every other entry
putAlone(m, id, payload) == [i \in { id } |-> payload]

\* a map assignment that keeps the entry of a key already present
putIfAbsent(m, id, payload) ==
  [i \in (DOMAIN m) \cup { id } |-> IF i \in DOMAIN m THEN m[i] ELSE payload]

\* the map after urlStore[id] = payload
put(m, id, payload) ==
  [i \in (DOMAIN m) \cup { id } |-> IF i = id THEN payload ELSE m[i]]

\* a map read that finds nothing
getNotFound(m, id) == [value |-> << >>, ok |-> FALSE]

\* a map read whose ok is always true
getAlwaysOk(m, id) ==
  IF id \in DOMAIN m
    THEN [value |-> m[id], ok |-> TRUE]
    ELSE [value |-> << >>, ok |-> TRUE]

\* the two results of the map read m[id]: the zero value "" when absent
get(m, id) ==
  IF id \in DOMAIN m
    THEN [value |-> m[id], ok |-> TRUE]
    ELSE [value |-> << >>, ok |-> FALSE]

(***************************************************************************)
(* shortenUrl (main.go:134-157).                                           *)
(***************************************************************************)
\* validate without the check of the scheme
validateNonEmpty(url) ==
  IF url = UrlNone
    THEN Error("URL parameter in query is required", 400)
    ELSE NoResp

\* main.go:135-146: the two checks of the url parameter; the answer 400 of
\* a rejected url, NoResp for a url that passes
validate(url) ==
  IF url = UrlNone
    THEN Error("URL parameter in query is required", 400)
    ELSE IF ~validScheme(url)
           THEN Error("URL parameter must have the value https:// or http://", 400)
           ELSE NoResp

\* main.go:135-146
ShortenValidate(w) ==
  /\ ~crashed
  /\ pc[w] = "shorten"
  /\ resp' = [resp EXCEPT ![w] = validate(req[w].url)]
  /\ pc' = [pc EXCEPT ![w] =
              IF validate(req[w].url) = NoResp THEN "encrypt" ELSE "responded"]
  /\ UNCHANGED << store, redis, crashed, req, locals, limiterHist, storeHist >>

\* main.go:148  encryptedUrl := encrypt(orinalUrl), rand.Read drawing the IV
\* from ivs
ShortenEncrypt(w, ivs) ==
  /\ ~crashed
  /\ pc[w] = "encrypt"
  /\ \E iv \in ivs :
       encryptedUrl' = [encryptedUrl EXCEPT ![w] = encrypt(req[w].url, iv)]
  /\ pc' = [pc EXCEPT ![w] = "genid"]
  /\ UNCHANGED << store, redis, crashed, req, shortId, ok, view, resp,
                  limiterHist, storeHist >>

\* a handler that answers right after generateShortId, with no store write
ShortenGenIdSkipStore(w) ==
  /\ ~crashed
  /\ pc[w] = "genid"
  /\ \E nums \in RandNums :
       shortId' = [shortId EXCEPT ![w] = generateShortId(nums)]
  /\ pc' = [pc EXCEPT ![w] = "respond"]
  /\ UNCHANGED << store, redis, crashed, req, encryptedUrl, ok, view, resp,
                  limiterHist, storeHist >>

\* main.go:149  shortId := generateShortId()
ShortenGenId(w) ==
  /\ ~crashed
  /\ pc[w] = "genid"
  /\ \E nums \in RandNums :
       shortId' = [shortId EXCEPT ![w] = generateShortId(nums)]
  /\ pc' = [pc EXCEPT ![w] = "lock"]
  /\ UNCHANGED << store, redis, crashed, req, encryptedUrl, ok, view, resp,
                  limiterHist, storeHist >>

\* main.go:150  mu.Lock()
ShortenLock(w) ==
  /\ ~crashed
  /\ pc[w] = "lock"
  /\ canLock(mu)
  /\ mu' = w
  /\ pc' = [pc EXCEPT ![w] = "assign"]
  /\ UNCHANGED << urlStore, redis, crashed, req, locals, resp, limiterHist,
                  storeHist >>

\* main.go:151  urlStore[shortId] = encryptedUrl, first half: a map
\* assignment is not atomic; it starts from the map as it finds it
ShortenAssign(w) ==
  /\ ~crashed
  /\ pc[w] = "assign"
  /\ view' = [view EXCEPT ![w] = urlStore]
  /\ pc' = [pc EXCEPT ![w] = "write"]
  /\ UNCHANGED << store, redis, crashed, req, encryptedUrl, shortId, ok, resp,
                  limiterHist, storeHist >>

\* main.go:151  urlStore[shortId] = encryptedUrl, second half: the map
\* becomes the map found with the new entry
ShortenWrite(w) ==
  /\ ~crashed
  /\ pc[w] = "write"
  /\ urlStore' = put(view[w], shortId[w], encryptedUrl[w])
  /\ view' = [view EXCEPT ![w] = << >>]
  /\ written' = [written EXCEPT ![shortId[w]] =
                   [payload |-> encryptedUrl[w], url |-> req[w].url,
                    answered |-> FALSE]]
  /\ pc' = [pc EXCEPT ![w] = "unlock"]
  /\ UNCHANGED << mu, redis, crashed, req, encryptedUrl, shortId, ok, resp,
                  limiterHist, issued, look >>

\* a handler that goes on without mu.Unlock()
ShortenUnlockKeep(w) ==
  /\ ~crashed
  /\ pc[w] = "unlock"
  /\ pc' = [pc EXCEPT ![w] = "respond"]
  /\ UNCHANGED << store, redis, crashed, req, locals, resp, limiterHist,
                  storeHist >>

\* main.go:152  mu.Unlock()
ShortenUnlock(w) ==
  /\ ~crashed
  /\ pc[w] = "unlock"
  /\ mu' = 0
  /\ pc' = [pc EXCEPT ![w] = "respond"]
  /\ UNCHANGED << urlStore, redis, crashed, req, locals, resp, limiterHist,
                  storeHist >>

\* main.go:154  shortUrl := fmt.Sprintf("http://localhost:8080/%s", shortId)
shortUrlOf(id) == << "http://localhost:8080/" >> \o id

\* main.go:154-156: the answer 200 with the short url
ShortenRespond(w) ==
  /\ ~crashed
  /\ pc[w] = "respond"
  /\ resp' = [resp EXCEPT ![w] =
                [status |-> 200, message |-> "The shortened url is: ",
                 location |-> << >>, shortUrl |-> shortUrlOf(shortId[w])]]
  /\ issued' = [issued EXCEPT ![shortId[w]] = TRUE]
  /\ written' = [written EXCEPT ![shortId[w]].answered =
                   @ \/ written[shortId[w]].url = req[w].url]
  /\ pc' = [pc EXCEPT ![w] = "responded"]
  /\ UNCHANGED << store, redis, crashed, req, locals, limiterHist, look >>

(***************************************************************************)
(* redirectHandler (main.go:159-175).                                      *)
(***************************************************************************)
\* main.go:160-162  shortId := r.URL.Path[1:]; mu.Lock()
RedirectLock(w) ==
  /\ ~crashed
  /\ pc[w] = "redirect"
  /\ canLock(mu)
  /\ mu' = w
  /\ shortId' = [shortId EXCEPT ![w] = req[w].id]
  /\ pc' = [pc EXCEPT ![w] = "read"]
  /\ UNCHANGED << urlStore, redis, crashed, req, encryptedUrl, ok, view, resp,
                  limiterHist, storeHist >>

\* main.go:163  encryptedUrl, ok := urlStore[shortId]
RedirectRead(w) ==
  /\ ~crashed
  /\ pc[w] = "read"
  /\ encryptedUrl' = [encryptedUrl EXCEPT ![w] = get(urlStore, shortId[w]).value]
  /\ ok' = [ok EXCEPT ![w] = get(urlStore, shortId[w]).ok]
  /\ look' = [look EXCEPT ![w] =
                [done |-> TRUE,
                 hit |-> req[w].id \in DOMAIN urlStore,
                 payload |-> IF req[w].id \in GenIds
                               THEN written[req[w].id].payload ELSE << >>,
                 url |-> IF req[w].id \in GenIds
                           THEN written[req[w].id].url ELSE << >>]]
  /\ pc' = [pc EXCEPT ![w] = "runlock"]
  /\ UNCHANGED << store, redis, crashed, req, shortId, view, resp, limiterHist,
                  written, issued >>

\* main.go:164  mu.Unlock()
RedirectUnlock(w) ==
  /\ ~crashed
  /\ pc[w] = "runlock"
  /\ mu' = 0
  /\ pc' = [pc EXCEPT ![w] = "found"]
  /\ UNCHANGED << urlStore, redis, crashed, req, locals, resp, limiterHist,
                  storeHist >>

\* http.Redirect(w, r, url, http.StatusFound) for a url that has a scheme
Redirect(url) ==
  [status |-> 302, message |-> "", location |-> url, shortUrl |-> << >>]

\* main.go:166-174: 404 when the id was absent, else decrypt and redirect.
\* A failed hex decoding ends the process (sugar.Fatal); a panic of the
\* handler is recovered by net/http, which closes the connection (status 0).
RedirectRespond(w) ==
  /\ ~crashed
  /\ pc[w] = "found"
  /\ IF ~ok[w]
       THEN /\ resp' = [resp EXCEPT ![w] =
                          Error("This url does not exist in our project", 404)]
            /\ crashed' = crashed
       ELSE LET d == decrypt(encryptedUrl[w]) IN
            /\ resp' = [resp EXCEPT ![w] =
                          IF d.outcome = "ok" THEN Redirect(d.result)
                                              ELSE NoResp]
            /\ crashed' = (d.outcome = "fatal")
  /\ pc' = [pc EXCEPT ![w] = "responded"]
  /\ UNCHANGED << store, redis, req, locals, limiterHist, storeHist >>

\* the handler has returned: the worker is free for the next request
Finish(w) ==
  /\ ~crashed
  /\ pc[w] = "responded"
  /\ pc' = [pc EXCEPT ![w] = "idle"]
  /\ req' = [req EXCEPT ![w] = NoReq]
  /\ encryptedUrl' = [encryptedUrl EXCEPT ![w] = << >>]
  /\ shortId' = [shortId EXCEPT ![w] = NoId]
  /\ ok' = [ok EXCEPT ![w] = FALSE]
  /\ resp' = [resp EXCEPT ![w] = NoResp]
  /\ look' = [look EXCEPT ![w] = NoLook]
  /\ UNCHANGED << store, redis, crashed, view, limiterHist, written, issued >>

(***************************************************************************)
(* Specifications.                                                         *)
(***************************************************************************)
\* the client of the requests that reach the store
StoreKeys == { 1 }

\* The handlers and the store: every request, of one client, all within one
\* window of the rate limiter (the clock does not tick).
Next ==
  \/ \E w \in Workers : Middleware(w, StoreKeys, Requests)
  \/ \E w \in Workers : ShortenValidate(w)
  \/ \E w \in Workers : ShortenEncrypt(w, StoreIVs)
  \/ \E w \in Workers : ShortenGenId(w)
  \/ \E w \in Workers : ShortenLock(w)
  \/ \E w \in Workers : ShortenAssign(w)
  \/ \E w \in Workers : ShortenWrite(w)
  \/ \E w \in Workers : ShortenUnlock(w)
  \/ \E w \in Workers : ShortenRespond(w)
  \/ \E w \in Workers : RedirectLock(w)
  \/ \E w \in Workers : RedirectRead(w)
  \/ \E w \in Workers : RedirectUnlock(w)
  \/ \E w \in Workers : RedirectRespond(w)
  \/ \E w \in Workers : Finish(w)

Spec == Init /\ [][Next]_vars

\* The rate limiter over time: every client, the clock, and the requests
\* that the handlers answer without writing to the store.
NextLimiter ==
  \/ \E w \in Workers : Middleware(w, Keys, RejectedRequests)
  \/ Tick
  \/ \E w \in Workers : ShortenValidate(w)
  \/ \E w \in Workers : RedirectLock(w)
  \/ \E w \in Workers : RedirectRead(w)
  \/ \E w \in Workers : RedirectUnlock(w)
  \/ \E w \in Workers : RedirectRespond(w)
  \/ \E w \in Workers : Finish(w)

SpecLimiter == Init /\ [][NextLimiter]_vars

\* requests that encrypt and decrypt: a url to shorten, longer than a block,
\* and the lookups of the ids
CryptoRequests ==
  { [kind |-> "shorten", url |-> UrlLong, id |-> NoId] }
    \cup { [kind |-> "redirect", url |-> UrlNone, id |-> i] : i \in GenIds }

\* encrypt and decrypt: the handlers with every IV that rand.Read can draw
NextCrypto ==
  \/ \E w \in Workers : Middleware(w, StoreKeys, CryptoRequests)
  \/ \E w \in Workers : ShortenValidate(w)
  \/ \E w \in Workers : ShortenEncrypt(w, IVs)
  \/ \E w \in Workers : ShortenGenId(w)
  \/ \E w \in Workers : ShortenLock(w)
  \/ \E w \in Workers : ShortenAssign(w)
  \/ \E w \in Workers : ShortenWrite(w)
  \/ \E w \in Workers : ShortenUnlock(w)
  \/ \E w \in Workers : ShortenRespond(w)
  \/ \E w \in Workers : RedirectLock(w)
  \/ \E w \in Workers : RedirectRead(w)
  \/ \E w \in Workers : RedirectUnlock(w)
  \/ \E w \in Workers : RedirectRespond(w)
  \/ \E w \in Workers : Finish(w)

SpecCrypto == Init /\ [][NextCrypto]_vars

\* requests of every outcome: a url that passes, a missing url, and the
\* lookup of an id
FairRequests ==
  { [kind |-> "shorten", url |-> u, id |-> NoId] : u \in { UrlHttp, UrlNone } }
    \cup { [kind |-> "redirect", url |-> UrlNone, id |-> generateShortId(nums)] :
             nums \in { << 0, 1, 25, 26, 51, 52 >> } }

\* The server running for ever: requests keep coming as the counters expire.
NextFair ==
  \/ \E w \in Workers : Middleware(w, StoreKeys, FairRequests)
  \/ Tick
  \/ \E w \in Workers : ShortenValidate(w)
  \/ \E w \in Workers : ShortenEncrypt(w, StoreIVs)
  \/ \E w \in Workers : ShortenGenId(w)
  \/ \E w \in Workers : ShortenLock(w)
  \/ \E w \in Workers : ShortenAssign(w)
  \/ \E w \in Workers : ShortenWrite(w)
  \/ \E w \in Workers : ShortenUnlock(w)
  \/ \E w \in Workers : ShortenRespond(w)
  \/ \E w \in Workers : RedirectLock(w)
  \/ \E w \in Workers : RedirectRead(w)
  \/ \E w \in Workers : RedirectUnlock(w)
  \/ \E w \in Workers : RedirectRespond(w)
  \/ \E w \in Workers : Finish(w)

\* the steps of the handlers in worker w, the middleware's call of allow
\* apart
Handler(w) ==
  \/ ShortenValidate(w)
  \/ ShortenEncrypt(w, StoreIVs)
  \/ ShortenGenId(w)
  \/ ShortenLock(w)
  \/ ShortenAssign(w)
  \/ ShortenWrite(w)
  \/ ShortenUnlock(w)
  \/ ShortenRespond(w)
  \/ RedirectLock(w)
  \/ RedirectRead(w)
  \/ RedirectUnlock(w)
  \/ RedirectRespond(w)

\* The scheduling of the goroutines: a handler that can take its next step
\* takes it (the Go scheduler is preemptive, and Exec answers or fails), and
\* a goroutine waiting in mu.Lock() gets the mutex when it is released again
\* and again (sync.Mutex hands the lock to a waiter that has waited long: its
\* starvation mode). Nothing obliges a client to send requests or the clock to
\* advance.
Fairness ==
  \A w \in Workers : SF_vars(Handler(w))

SpecFair == Init /\ [][NextFair]_vars /\ Fairness

(***************************************************************************)
(* Properties.                                                             *)
(***************************************************************************)
\* the urls that start with http:// or https://, among the inputs
HttpUrls == { UrlHttp, UrlHttps }

\* worker w has answered an admitted redirect request
RedirectAnswered(w) ==
  /\ pc[w] = "responded"
  /\ req[w].kind = "redirect"
  /\ resp[w].status # 429

\* C1 as stated: once a shorten request for u was answered with id i, every
\* redirect request for i received later is answered 302 with target u.
C1_RoundTripForEver ==
  \A w \in Workers :
    (RedirectAnswered(w) /\ req[w].snap.url # << >>)
      => /\ resp[w].status = 302
         /\ resp[w].location = req[w].snap.url

\* C1 amended: once a shorten request was answered with id i, every redirect
\* request for i received later is answered 302, and its target is exactly
\* the url of the shorten request that last wrote i before the lookup.
C1_RoundTrip ==
  \A w \in Workers :
    (RedirectAnswered(w) /\ req[w].snap.issued)
      => /\ resp[w].status = 302
         /\ look[w].url \in HttpUrls
         /\ resp[w].location = look[w].url

\* C1 witness: a redirect answered 302 with the url answered before it came
C1_Witness ==
  \E w \in Workers :
    /\ RedirectAnswered(w)
    /\ req[w].snap.issued
    /\ req[w].snap.url \in HttpUrls
    /\ resp[w].status = 302
    /\ resp[w].location = req[w].snap.url

\* worker w makes its call of allow on the counter of k in this step, and
\* Exec returns no error
Calls(w, k) ==
  /\ pc[w] = "idle"
  /\ pc'[w] # "idle"
  /\ req'[w].key = k
  /\ ~req'[w].execErr

\* the call of allow that worker w makes in this step returns true
Admitted(w) == pc'[w] # "responded"

\* C2: in a sequence of calls of allow(k) that starts with no counter, all
\* within one window of the first and with Exec succeeding, the n-th call
\* returns true if and only if n <= limit.
C2_NthCall ==
  [][\A w \in Workers, k \in Keys :
       (Calls(w, k) /\ age[k] < Window)
         => (Admitted(w) <=> calls'[k] <= Limit)]_vars

\* C2 witness: ten calls were let through and an eleventh was answered 429,
\* all within one window of the first
C2_Witness ==
  \E w \in Workers, k \in Keys :
    /\ calls[k] = Limit + 1
    /\ admits[k] = Limit
    /\ age[k] < Window
    /\ pc[w] = "responded"
    /\ req[w].key = k
    /\ ~req[w].execErr
    /\ resp[w].status = 429

\* C3 as stated: the counter of k is reset once the window has elapsed since
\* the increment that created it, so a count above limit is never as old as
\* one window.
C3_ResetAfterWindow ==
  \A k \in Keys : redisVal[k] > Limit => age[k] < Window

\* C6: the calls of allow(k) on one counter, in any interleaving of the
\* workers, observe the distinct values 1 .. N, and min(N, limit) of them
\* return true.
C6_NoLostIncrement ==
  \A k \in Keys :
    /\ seen[k] = 1 .. calls[k]
    /\ Cardinality(seen[k]) = calls[k]
    /\ redisVal[k] = calls[k]
    /\ admits[k] = IF calls[k] <= Limit THEN calls[k] ELSE Limit

\* C6 witness: two workers are serving requests of the same client at once,
\* the call of one was let through and the call of the other, the first past
\* limit, was not
C6_Witness ==
  \E k \in Keys, w1, w2 \in Workers :
    /\ calls[k] = Limit + 1
    /\ admits[k] = Limit
    /\ req[w1].key = k /\ ~req[w1].execErr
    /\ req[w2].key = k /\ ~req[w2].execErr
    /\ pc[w1] \notin { "idle", "responded" }
    /\ pc[w2] = "responded" /\ resp[w2].status = 429

\* nothing of the handlers has run for the request of worker w
HandlerNotRun(w) ==
  /\ encryptedUrl[w] = << >>
  /\ shortId[w] = NoId
  /\ ~ok[w]
  /\ view[w] = << >>
  /\ ~look[w].done
  /\ mu # w

\* C4: when Exec returns an error, whatever the key and the value of its
\* counter, the request is answered 429 and its handler is not run.
C4_FailClosed ==
  \A w \in Workers :
    req[w].execErr
      => /\ pc[w] = "responded"
         /\ resp[w].status = 429
         /\ HandlerNotRun(w)

\* C4 witness: Exec failed for a request to shorten a valid url while the
\* counter of its client was below limit, and the answer is 429
C4_Witness ==
  \E w \in Workers :
    /\ req[w].execErr
    /\ req[w].kind = "shorten"
    /\ req[w].url \in HttpUrls
    /\ redisVal[req[w].key] \in 1 .. Limit - 1
    /\ resp[w].status = 429

\* the call of allow for the request that worker w takes in this step, of
\* client k, returns false: Exec failed or the count went past limit
Refused(w, k) ==
  /\ pc[w] = "idle"
  /\ pc'[w] # "idle"
  /\ req'[w].key = k
  /\ (req'[w].execErr \/ redisVal'[k] > Limit)

\* C5: a request for which allow returns false is answered 429 at once,
\* whatever its path and its parameter, and that step leaves the store, its
\* lock and the variables of the handlers as they were; an answer 429 is
\* only ever given to a request whose handler has not run.
C5_LimitFirst ==
  [][\A w \in Workers :
       /\ \A k \in Keys :
            Refused(w, k)
              => /\ pc'[w] = "responded"
                 /\ resp'[w].status = 429
                 /\ UNCHANGED << urlStore, mu, encryptedUrl, shortId, ok, view,
                                 written, issued, look >>
       /\ (pc'[w] = "responded" /\ resp'[w].status = 429)
            => (pc[w] \in { "idle", "responded" } /\ HandlerNotRun(w)')]_vars

\* C5 witness: the count of the client went past limit on a request to
\* shorten a valid url, and a redirect request for a stored id is refused
\* too; both are answered 429
C5_Witness ==
  \E w1, w2 \in Workers :
    /\ pc[w1] = "responded"
    /\ resp[w1].status = 429
    /\ ~req[w1].execErr
    /\ req[w1].kind = "shorten"
    /\ req[w1].url \in HttpUrls
    /\ redisVal[req[w1].key] > Limit
    /\ pc[w2] = "responded"
    /\ resp[w2].status = 429
    /\ req[w2].kind = "redirect"
    /\ req[w2].id \in DOMAIN urlStore

\* worker w has written its entry and not yet finished its request
HasWritten(w) ==
  /\ req[w].kind = "shorten"
  /\ pc[w] \in { "unlock", "respond" } \/ (pc[w] = "responded" /\ resp[w].status = 200)

\* C7: no write to the store is lost or torn, whatever the interleaving: the
\* store holds exactly the ids written, each with the payload last written
\* for it, and a lookup finds nothing when the id is absent and else the
\* whole payload last written for that id.
C7_NoLostUpdate ==
  /\ DOMAIN urlStore = { i \in GenIds : written[i] # NoWrite }
  /\ \A i \in DOMAIN urlStore : urlStore[i] = written[i].payload
  /\ \A w \in Workers :
       look[w].done
         => /\ ok[w] = look[w].hit
            /\ encryptedUrl[w] = (IF look[w].hit THEN look[w].payload ELSE << >>)
            /\ look[w].hit => look[w].payload # << >>

\* C7 witness: two shorten requests in progress at once have written two
\* different ids, and the store holds the payload of each
C7_Witness ==
  \E w1, w2 \in Workers :
    /\ HasWritten(w1) /\ HasWritten(w2)
    /\ shortId[w1] # shortId[w2]
    /\ DOMAIN urlStore = { shortId[w1], shortId[w2] }
    /\ urlStore[shortId[w1]] = encryptedUrl[w1]
    /\ urlStore[shortId[w2]] = encryptedUrl[w2]

\* the map m with the one entry id -> payload written
OneEntryWritten(m, id, payload) ==
  [i \in (DOMAIN m) \cup { id } |-> IF i = id THEN payload ELSE m[i]]

\* C8 as stated, its last part: the write of a shorten request for a url that
\* starts with http:// or https:// adds exactly one key to the store.
C8_AddsOneKey ==
  [][\A w \in Workers :
       (pc[w] = "write" /\ pc'[w] = "unlock")
         => Cardinality(DOMAIN urlStore') = Cardinality(DOMAIN urlStore) + 1]_vars

\* C8 amended: an admitted shorten request whose url is empty or starts with
\* neither http:// nor https:// is answered 400 at once, nothing being
\* encrypted, generated or written; one whose url starts with http:// or
\* https:// goes on, writes exactly one entry id -> payload to the store (a
\* new key, or the entry of that id replaced) and is answered 200; the store
\* changes in no other way.
C8_Validation ==
  [][/\ \A w \in Workers :
          /\ (pc[w] = "shorten" /\ pc'[w] # "shorten")
               => IF req[w].url \in HttpUrls
                    THEN pc'[w] = "encrypt"
                    ELSE /\ pc'[w] = "responded"
                         /\ resp'[w].status = 400
                         /\ HandlerNotRun(w)'
                         /\ UNCHANGED << urlStore, written >>
          /\ (pc'[w] = "responded" /\ resp'[w].status = 400)
               => (req'[w].kind = "shorten" /\ req'[w].url \notin HttpUrls)
          /\ (pc[w] # "responded" /\ pc'[w] = "responded" /\ resp'[w].status = 200)
               => /\ req[w].kind = "shorten"
                  /\ req[w].url \in HttpUrls
                  /\ shortId[w] \in DOMAIN urlStore
                  /\ written[shortId[w]].url \in HttpUrls
     /\ urlStore' # urlStore
          => \E w \in Workers :
               /\ pc[w] = "write"
               /\ req[w].kind = "shorten"
               /\ req[w].url \in HttpUrls
               /\ urlStore' = OneEntryWritten(urlStore, shortId[w], encryptedUrl[w])]_vars

\* C8 witness: one request was answered 400 for "ftp://x" with the store
\* holding one entry, the entry of the other request, answered 200
C8_Witness ==
  \E w1, w2 \in Workers :
    /\ pc[w1] = "responded" /\ resp[w1].status = 400 /\ req[w1].url = UrlFtp
    /\ pc[w2] = "responded" /\ resp[w2].status = 200
    /\ DOMAIN urlStore = { shortId[w2] }

\* C9: an admitted redirect request is answered 404 exactly when its id was
\* no key of the store at its lookup, and else 302 with the decryption of the
\* payload then stored under the id; no step of a redirect request changes
\* the store.
C9_Lookup ==
  [][\A w \in Workers :
       /\ (req[w].kind = "redirect" /\ pc'[w] # pc[w])
            => UNCHANGED << urlStore, written >>
       /\ (pc'[w] = "responded" /\ req'[w].kind = "redirect"
             /\ resp'[w].status # 429)
            => /\ look'[w].done
               /\ (resp'[w].status = 404) <=> ~look'[w].hit
               /\ look'[w].hit
                    => /\ resp'[w].status = 302
                       /\ resp'[w].location = decrypt(look'[w].payload).result]_vars

\* C9 witness: one redirect request is answered 404 and another 302
C9_Witness ==
  \E w1, w2 \in Workers :
    /\ RedirectAnswered(w1) /\ resp[w1].status = 404 /\ req[w1].id \in GenIds
    /\ RedirectAnswered(w2) /\ resp[w2].status = 302
    /\ resp[w2].location \in HttpUrls

\* the 62 symbols a-z, A-Z, 0-9
Alphabet ==
  { "a", "b", "c", "d", "e", "f", "g", "h", "i", "j", "k", "l", "m",
    "n", "o", "p", "q", "r", "s", "t", "u", "v", "w", "x", "y", "z",
    "A", "B", "C", "D", "E", "F", "G", "H", "I", "J", "K", "L", "M",
    "N", "O", "P", "Q", "R", "S", "T", "U", "V", "W", "X", "Y", "Z",
    "0", "1", "2", "3", "4", "5", "6", "7", "8", "9" }

\* the digits of lower-case hexadecimal text
HexDigits ==
  { "0", "1", "2", "3", "4", "5", "6", "7",
    "8", "9", "a", "b", "c", "d", "e", "f" }

\* id has six characters of the alphabet
WellFormedId(id) ==
  /\ Len(id) = 6
  /\ \A n \in 1 .. Len(id) : id[n] \in Alphabet

\* payload is the hexadecimal text of 16 bytes of IV and the cipher text of
\* a url that starts with http:// or https://
WellFormedPayload(payload) ==
  /\ Len(payload) % 2 = 0
  /\ Len(payload) > 2 * 16
  /\ \A n \in 1 .. Len(payload) : payload[n] \in HexDigits
  /\ LET d == decrypt(payload) IN
       d.outcome = "ok" /\ d.result \in HttpUrls

\* C10: every key of the store is a six-character id of the alphabet that
\* generateShortId produced, every value is a well-formed payload of a url
\* that starts with http:// or https://, and no redirect request reaches the
\* failure paths of decrypt.
C10_StoreWellFormed ==
  /\ \A i \in DOMAIN urlStore :
       /\ WellFormedId(i)
       /\ i \in GenIds
       /\ WellFormedPayload(urlStore[i])
  /\ ~crashed
  /\ \A w \in Workers : pc[w] = "responded" => resp[w].status # 0

\* C10 witness: the store holds two entries and a redirect request has
\* decrypted one of them
C10_Witness ==
  /\ Cardinality(DOMAIN urlStore) = 2
  /\ \E w \in Workers :
       /\ RedirectAnswered(w)
       /\ resp[w].status = 302

\* worker w serves a shorten request and has encrypted its url
Encrypted(w) ==
  /\ req[w].kind = "shorten"
  /\ encryptedUrl[w] # << >>

\* the hexadecimal text of the IV at the head of a payload
ivText(payload) == SubSeq(payload, 1, 2 * BlockSize)

\* every url of the inputs, valid or not
AllUrls == Urls \cup { UrlLong }

\* decrypt undoes encrypt for every url and IV of the inputs, and two IVs give
\* the same payload only when they are the same IV
RoundTripOfInputs ==
  /\ \A u \in AllUrls, iv \in IVs :
       decrypt(encrypt(u, iv)) = [outcome |-> "ok", result |-> u]
  /\ \A u \in AllUrls, iv1, iv2 \in IVs :
       (encrypt(u, iv1) = encrypt(u, iv2)) <=> (iv1 = iv2)

\* no request has reached the server yet
NothingReceived ==
  /\ \A k \in Keys : calls[k] = 0
  /\ \A w \in Workers : pc[w] = "idle"

\* C11 as stated, its second part: two encryptions of the same url give two
\* different payloads.
C11_TwoEncryptionsDiffer ==
  \A w1, w2 \in Workers :
    (w1 # w2 /\ Encrypted(w1) /\ Encrypted(w2) /\ req[w1].url = req[w2].url)
      => encryptedUrl[w1] # encryptedUrl[w2]

\* C11 amended: for every url u and every IV that encrypt draws,
\* decrypt(encrypt(u)) = u; two encryptions of the same u give different
\* payloads exactly when their IVs differ (the IV is the head of the payload),
\* and every payload decrypts to u. The law of the pure functions, which no
\* step changes, is evaluated before the first request.
C11_EncryptDecrypt ==
  /\ NothingReceived => RoundTripOfInputs
  /\ \A w \in Workers :
       Encrypted(w)
         => /\ decrypt(encryptedUrl[w]) = [outcome |-> "ok", result |-> req[w].url]
            /\ \E iv \in IVs : ivText(encryptedUrl[w]) = EncodeToString(iv)
  /\ \A w1, w2 \in Workers :
       (Encrypted(w1) /\ Encrypted(w2) /\ req[w1].url = req[w2].url)
         => ((encryptedUrl[w1] = encryptedUrl[w2])
               <=> (ivText(encryptedUrl[w1]) = ivText(encryptedUrl[w2])))
  /\ \A w \in Workers :
       (RedirectAnswered(w) /\ resp[w].status = 302)
         => resp[w].location = look[w].url

\* C11 witness: two requests have encrypted the same url to two different
\* payloads, and a redirect has decrypted a stored payload back to that url
C11_Witness ==
  \E w1, w2 \in Workers :
    /\ Encrypted(w1)
    /\ req[w1].url = UrlLong
    /\ shortId[w1] \in GenIds
    /\ written[shortId[w1]].url = UrlLong
    /\ written[shortId[w1]].payload # << >>
    /\ written[shortId[w1]].payload # encryptedUrl[w1]
    /\ decrypt(written[shortId[w1]].payload).result = UrlLong
    /\ RedirectAnswered(w2)
    /\ resp[w2].status = 302
    /\ resp[w2].location = UrlLong

\* C12 as stated: a call of allow(k) on a counter that already exists
\* increments the count and leaves the time at which the counter expires
\* unchanged; only the call that creates the counter sets its expiry.
C12_ExpiryOnlyOnCreate ==
  [][\A w \in Workers, k \in Keys :
       Calls(w, k)
         => /\ redisVal'[k] = redisVal[k] + 1
            /\ redisVal[k] = 0 => redisTtl'[k] = Window
            /\ redisVal[k] > 0 => redisTtl'[k] = redisTtl[k]]_vars

\* within any span shorter than the window the calls admitted for one key
\* belong to one counter, and are at most limit: a counter is created only
\* when the last admitted call of its key is at least a window old
BurstBounded ==
  [][\A w \in Workers, k \in Keys :
       Calls(w, k)
         => /\ admits'[k] <= Limit
            /\ redisVal[k] = 0 => sinceAdmit[k] >= Window]_vars

\* C13 as stated, at the boundary it describes: the calls made once the
\* window has elapsed since the increment that created the counter are the
\* first calls of the next window and return true, also when they come less
\* than a window after the last admitted calls, so that more than limit
\* calls are admitted in a span shorter than the window.
C13_BoundaryBurst ==
  [][\A w \in Workers, k \in Keys :
       (Calls(w, k) /\ age[k] >= Window /\ sinceAdmit[k] < Window)
         => Admitted(w)]_vars

\* worker w writes its entry in this step, under an id that is a key already
Overwrites(w) ==
  /\ pc[w] = "write"
  /\ pc'[w] # "write"
  /\ shortId[w] \in DOMAIN urlStore

C15_ReadAfterWrite ==
  [][\A w \in Workers :
       (pc[w] = "read" /\ pc'[w] # "read")
         => /\ mu = w
            /\ \A v \in Workers : v # w => pc[v] \notin { "assign", "write", "unlock" }
            /\ IF req[w].id \in GenIds /\ written[req[w].id] # NoWrite
                 THEN /\ ok'[w]
                      /\ encryptedUrl'[w] = written[req[w].id].payload
                      /\ encryptedUrl'[w] = urlStore[req[w].id]
                 ELSE /\ ~ok'[w]
                      /\ encryptedUrl'[w] = << >>]_vars

\* C15 witness: a lookup has found the payload that another request wrote and
\* whose answer is not sent yet, the lock being released between the two
C15_Witness ==
  \E w, v \in Workers :
    /\ pc[w] = "runlock"
    /\ ok[w]
    /\ pc[v] = "respond"
    /\ shortId[v] = req[w].id
    /\ encryptedUrl[w] = encryptedUrl[v]
    /\ encryptedUrl[w] # << >>

\* worker w is between mu.Lock() and mu.Unlock()
InCritical(w) == pc[w] \in { "assign", "write", "unlock", "read", "runlock" }

\* the step of worker w is one of: the call of the counter service, the
\* validation, encrypt, generateShortId, decrypt, writing the answer, leaving
\* the handler
OutsideStep(w) ==
  /\ pc[w] \in { "idle", "shorten", "encrypt", "genid", "respond", "found",
                 "responded" }
  /\ pc'[w] # pc[w]

\* C16: at most one worker is inside the critical section of the store, the
\* worker inside is the holder of mu, every read and every write of the map
\* is made by the holder, a section holds one map access and then releases,
\* no worker holds the lock while it calls the counter service, validates,
\* encrypts, generates an id, decrypts or answers, and none holds it once its
\* request is answered.
C16_LockDiscipline ==
  [][/\ \A w \in Workers : InCritical(w) <=> mu = w
     /\ \A w1, w2 \in Workers : (InCritical(w1) /\ InCritical(w2)) => w1 = w2
     /\ urlStore' # urlStore
          => \E w \in Workers : mu = w /\ mu' = w /\ pc[w] = "write"
     /\ \A w \in Workers :
          /\ (view'[w] # view[w] \/ (look'[w].done /\ ~look[w].done))
               => (mu = w /\ mu' = w)
          /\ OutsideStep(w) => (mu # w /\ mu' # w)
          /\ (redisVal' # redisVal /\ pc'[w] # pc[w]) => (mu # w /\ mu' # w)
          /\ (resp'[w] # resp[w] \/ encryptedUrl'[w] # encryptedUrl[w])
               => (mu' # w \/ pc[w] = "read")
          /\ pc[w] \in { "idle", "responded" } => mu # w
          /\ (InCritical(w) /\ pc'[w] # pc[w])
               => \/ pc[w] = "assign" /\ pc'[w] = "write" /\ mu' = w
                  \/ pc[w] = "write" /\ pc'[w] = "unlock" /\ mu' = w
                  \/ pc[w] = "unlock" /\ pc'[w] = "respond" /\ mu' = 0
                  \/ pc[w] = "read" /\ pc'[w] = "runlock" /\ mu' = w
                  \/ pc[w] = "runlock" /\ pc'[w] = "found" /\ mu' = 0]_vars

\* C16 witness: one worker holds the lock for its write while the other,
\* which has its payload and id ready, waits for the lock
C16_Witness ==
  \E w1, w2 \in Workers :
    /\ pc[w1] = "write"
    /\ mu = w1
    /\ pc[w2] = "lock"
    /\ encryptedUrl[w2] # << >>
    /\ urlStore # << >>

\* the position that follows position p in shortenUrl for a url that passes
\* the validation
NextStep(p) ==
  CASE p = "shorten" -> "encrypt"
    [] p = "encrypt" -> "genid"
    [] p = "genid" -> "lock"
    [] p = "lock" -> "assign"
    [] p = "assign" -> "write"
    [] p = "write" -> "unlock"
    [] p = "unlock" -> "respond"
    [] p = "respond" -> "responded"
    [] OTHER -> "idle"

\* C17: a shorten request with a valid url goes from the rate check to the
\* validation, the encryption, the id, the store write and the answer, in
\* this order and with no step left out; the answer 200 with id i is written
\* when i is a key of the store; a redirect request for i received after
\* that answer is never answered 404.
C17_StepOrder ==
  [][\A w \in Workers :
       /\ (pc[w] = "idle" /\ pc'[w] = "shorten")
            => (~req'[w].execErr /\ redisVal'[req'[w].key] \in 1 .. Limit)
       /\ (req[w].kind = "shorten" /\ req[w].url \in HttpUrls
             /\ pc[w] \notin { "idle", "responded" } /\ pc'[w] # pc[w])
            => /\ pc'[w] = NextStep(pc[w])
               /\ pc[w] = "encrypt" => encryptedUrl'[w] # << >>
               /\ pc[w] = "genid"
                    => (encryptedUrl[w] # << >> /\ shortId'[w] \in GenIds)
               /\ pc[w] = "write"
                    => /\ shortId[w] \in GenIds
                       /\ shortId[w] \in DOMAIN urlStore'
                       /\ urlStore'[shortId[w]] = encryptedUrl[w]
               /\ pc[w] = "respond"
                    => /\ resp'[w].status = 200
                       /\ resp'[w].shortUrl = shortUrlOf(shortId[w])
                       /\ shortId[w] \in DOMAIN urlStore
                       /\ issued'[shortId[w]]
               /\ pc[w] # "respond" => resp'[w] = NoResp
       /\ \A i \in GenIds : issued'[i] => i \in DOMAIN urlStore'
       /\ (pc'[w] = "responded" /\ req'[w].kind = "redirect"
             /\ req'[w].snap.issued)
            => resp'[w].status \in { 302, 429 }]_vars

\* C17 witness: a shorten request has been answered 200 with an id, and a
\* redirect request for that id, received after the answer, is answered 302
C17_Witness ==
  \E w1, w2 \in Workers :
    /\ pc[w1] = "responded"
    /\ resp[w1].status = 200
    /\ RedirectAnswered(w2)
    /\ req[w2].id = shortId[w1]
    /\ req[w2].snap.issued
    /\ resp[w2].status = 302

\* the status codes of the answers of the server
Statuses == { 200, 302, 400, 404, 429 }

\* worker w has answered its request, with one of the status codes
Responded(w) ==
  /\ pc[w] = "responded"
  /\ resp[w].status \in Statuses

\* how far a request has come, by position
Rank(p) ==
  CASE p = "idle" -> 0
    [] p \in { "shorten", "redirect" } -> 1
    [] p = "encrypt" -> 2
    [] p = "genid" -> 3
    [] p \in { "lock", "read" } -> 4
    [] p \in { "assign", "runlock" } -> 5
    [] p \in { "write", "found" } -> 6
    [] p = "unlock" -> 7
    [] p = "respond" -> 8
    [] OTHER -> 9

\* C18: every request received is eventually answered, whatever the other
\* worker does and however often it takes the store lock; a request is
\* answered once, with 200, 302, 400, 404 or 429, nothing being written to
\* the answer before or after; every step of a request takes it forward, none
\* is taken twice.
C18_Terminates ==
  /\ \A w \in Workers : (pc[w] # "idle") ~> Responded(w)
  /\ [][\A w \in Workers :
          /\ pc'[w] # pc[w]
               => \/ Rank(pc'[w]) > Rank(pc[w])
                  \/ pc[w] = "responded" /\ pc'[w] = "idle"
          /\ resp'[w] # resp[w]
               => \/ /\ resp[w] = NoResp
                     /\ pc[w] # "responded"
                     /\ Responded(w)'
                  \/ /\ Responded(w)
                     /\ pc'[w] = "idle"
                     /\ resp'[w] = NoResp
          /\ pc'[w] = "responded" => Responded(w)']_vars

\* C18 witness: a worker waits for the store lock, which the other holds, in
\* a window of the counter that is not the first
C18_Witness ==
  \E w1, w2 \in Workers :
    /\ pc[w1] = "lock"
    /\ mu = w2
    /\ age[1] > 0
    /\ redisVal[1] > 2
    /\ urlStore # << >>

\* request r is answered 400, 404 or 302 when it is admitted: it is a lookup,
\* or its url does not pass the validation
NoWriteRequest(r) == r.kind = "redirect" \/ r.url \notin HttpUrls

\* C19: no step removes a key from the store; a key is added only by the
\* write of an admitted shorten request whose url passed the validation; the
\* call of allow, and every step of a request that is answered 429, 400, 404
\* or 302, leaves the whole store as it is.
C19_StoreOnlyGrows ==
  [][/\ DOMAIN urlStore \subseteq DOMAIN urlStore'
     /\ \A i \in (DOMAIN urlStore') \ (DOMAIN urlStore) :
          \E w \in Workers :
            /\ pc[w] = "write"
            /\ shortId[w] = i
            /\ req[w].kind = "shorten"
            /\ req[w].url \in HttpUrls
            /\ ~req[w].execErr
            /\ urlStore'[i] = encryptedUrl[w]
     /\ \A w \in Workers :
          /\ (pc[w] = "idle" /\ pc'[w] # "idle") => urlStore' = urlStore
          /\ (pc[w] # "idle" /\ pc'[w] # pc[w] /\ NoWriteRequest(req[w]))
               => urlStore' = urlStore
          /\ (pc'[w] = "responded" /\ resp'[w].status \in { 400, 404, 302 })
               => NoWriteRequest(req'[w])
          /\ (pc'[w] = "responded" /\ resp'[w].status = 429)
               => (pc[w] \in { "idle", "responded" } /\ view'[w] = << >>
                     /\ shortId'[w] = NoId)
          /\ (pc'[w] = "responded" /\ resp'[w].status \notin { 400, 404, 302, 429 })
               => (resp'[w].status = 200 /\ ~NoWriteRequest(req'[w]))]_vars

\* C19 witness: the store holds two entries while one request is answered
\* 404 and another 400
C19_Witness ==
  \E w1, w2 \in Workers :
    /\ Cardinality(DOMAIN urlStore) = 2
    /\ pc[w1] = "responded" /\ resp[w1].status = 404
    /\ pc[w2] = "responded" /\ resp[w2].status = 400

\* C20: every request received makes one call of allow, in the step that
\* receives it, whatever its path and its url, and no later step of the request
\* makes another; a call that Exec carries out raises the counter of the
\* client by exactly one, also when allow returns false, and leaves the other
\* counters alone; so the count is the number of calls carried out for the
\* client since the counter was created, past limit as well.
C20_EveryCallCounts ==
  [][\A w \in Workers, k \in Keys :
       /\ (pc[w] = "idle" /\ pc'[w] # "idle" /\ req'[w].key = k)
            => IF req'[w].execErr
                 THEN redisVal' = redisVal /\ calls' = calls
                 ELSE /\ redisVal'[k] = redisVal[k] + 1
                      /\ calls'[k] = calls[k] + 1
                      /\ \A j \in Keys \ { k } :
                           redisVal'[j] = redisVal[j] /\ calls'[j] = calls[j]
                      /\ Admitted(w) <=> redisVal'[k] <= Limit
       /\ (pc[w] # "idle" /\ pc'[w] # pc[w])
            => (redisVal' = redisVal /\ calls' = calls)
       /\ redisVal'[k] = calls'[k]
       /\ admits'[k] <= redisVal'[k]]_vars

\* C20 witness: the counter of a client stands past limit, the last call being
\* a refused lookup, while a request of the same client with an invalid url,
\* counted as well, is answered 400
C20_Witness ==
  \E w1, w2 \in Workers, k \in Keys :
    /\ redisVal[k] = Limit + 1
    /\ calls[k] = Limit + 1
    /\ pc[w1] = "responded" /\ resp[w1].status = 429
    /\ req[w1].key = k /\ req[w1].kind = "redirect" /\ ~req[w1].execErr
    /\ pc[w2] = "responded" /\ resp[w2].status = 400
    /\ req[w2].key = k

====
